---- MODULE Spec2Model ----
(***************************************************************************)
(* The tool-calling agent loop of the meeting agent: the generator         *)
(* run_agent of backend/agent.py, the dispatch function execute_tool and   *)
(* the Tool Registry of backend/tools/__init__.py, and the consumer of the *)
(* generator, the Event Stream Adapter analyze.event_stream of             *)
(* backend/main.py with the meetings table of backend/database.py.         *)
(*                                                                         *)
(* run_agent is a Python generator.  Its body runs only while its consumer *)
(* is inside next(): every action below is one resumption of the           *)
(* generator, from the yield it is suspended at to the next yield, to its  *)
(* return, or to the exception that leaves it.  The Model Gateway          *)
(* (client.chat.completions.create) is the environment: each call draws    *)
(* its outcome from a bounded set.                                         *)
(***************************************************************************)
EXTENDS Integers, Sequences, FiniteSets, TLC

VARIABLES
    transcript,   \* the argument of run_agent
    messages,     \* the Conversation (local `messages`)
    iteration,    \* local `iteration`
    message,      \* local `message`: response.choices[0].message
    idx,          \* position of `tool_call` in message.tool_calls (1-based)
    arguments,    \* local `arguments` of the current tool call
    result,       \* local `result` of the current tool call
    pc,           \* where the generator stands
    events,       \* every event yielded so far, in order
    script,       \* every outcome the gateway produced so far, in order
    executed,     \* every execute_tool call made so far, in order
    requests,     \* every request made to the gateway so far, in order
    consumer,     \* who iterates the generator
    collected_results,  \* event_stream's list `collected_results`
    final_summary,      \* event_stream's `final_summary`
    meeting_title,      \* event_stream's `meeting_title`
    stream,       \* every item event_stream yielded so far, in order
    apc,          \* where event_stream stands
    meetings,     \* the rows of the meetings table, in insertion order
    registry,     \* the names that are keys of the dict TOOL_REGISTRY
    active,       \* which of two invocations of analyze the variables above
                  \* (meetings and registry apart) describe
    parked,       \* the other invocation's locals and logs, if there is one
    tool_input,   \* a tool function called on its own: its arguments
    tool_output   \* and what the call produced

\* The generator's locals and the logs of what it did.
agentVars == <<transcript, messages, iteration, message, idx, arguments,
               result, pc, events, script, executed, requests>>

\* The consumer's locals and the log of what it yielded.
adapterVars == <<consumer, collected_results, final_summary, meeting_title,
                 stream, apc>>

\* A second invocation, running concurrently.
otherVars == <<active, parked>>

\* A tool function called on its own.
toolVars == <<tool_input, tool_output>>

vars == <<agentVars, adapterVars, meetings, registry, otherVars, toolVars>>

-----------------------------------------------------------------------------
(* Bounds of the model *)

\* Largest number of tool requests in one gateway response.
MaxBatch == 2

\* Largest number of tool requests the gateway makes in one run.
MaxToolCalls == 5

\* Largest number of gateway requests of each of two concurrent invocations.
TwoMaxRequests == 1

\* Largest number of tool requests of each of two concurrent invocations.
TwoMaxCalls == 2

\* Largest number of entries of the items argument of create_action_items.
MaxItems == 2

\* Largest number of tool requests of one run that are anything but a
\* well-formed request of a registered tool (unknown name, payload that is
\* absent, no JSON, or no JSON object).
MaxIrregular == 1

\* Largest absolute value of a productivity_score given to analyze_sentiment.
MaxScore == 12

-----------------------------------------------------------------------------
(* Python values *)

\* Python's None, where a string is expected (a payload, a content).
NoneVal == "<None>"

PyDict(keys) == [kind |-> "dict", keys |-> keys]
PyList == [kind |-> "list", keys |-> {}]
PyNone == [kind |-> "none", keys |-> {}]

\* The result local before any tool ran.
NoResult == [is_error |-> FALSE, type |-> "", error |-> ""]

Artifact(t) == [is_error |-> FALSE, type |-> t, error |-> ""]
ErrorArtifact(msg) == [is_error |-> TRUE, type |-> "", error |-> msg]

-----------------------------------------------------------------------------
(* Constants of agent.py *)

max_iterations == 5

SYSTEM_PROMPT == "You are a Meeting AI Agent."

UserPrompt(t) == "Please analyze this meeting transcript:\n\n" \o t

ThinkingEvent == [type |-> "thinking", content |-> "Analyzing transcript..."]

DefaultFinal == "Analysis complete."

BudgetFinal == "Agent finished (max iterations reached)."

\* The names of the functions TOOLS_SCHEMA declares.
TOOLS_SCHEMA ==
    {"create_calendar_invite", "create_decision_record", "create_report"}

\* The keyword arguments of client.chat.completions.create.
Request(msgs) ==
    [messages |-> msgs, tools |-> TOOLS_SCHEMA, tool_choice |-> "auto"]

-----------------------------------------------------------------------------
(* The Tool Registry and the tools' signatures *)

TOOL_REGISTRY ==
    {"create_calendar_invite", "create_decision_record", "create_report",
     "create_email_summary", "create_action_items", "analyze_sentiment"}

\* Parameters of the tool functions: those without a default, and all.
ToolParams ==
    [create_calendar_invite |->
        [required |-> {"title", "start_time", "end_time"},
         all |-> {"title", "start_time", "end_time", "description", "attendees"},
         type |-> "calendar_invite"],
     create_email_summary |->
        [required |-> {"subject", "body"},
         all |-> {"subject", "body", "attendees", "date"},
         type |-> "email_summary"],
     create_action_items |->
        [required |-> {"items"},
         all |-> {"items", "meeting_title", "date"},
         type |-> "action_items"],
     analyze_sentiment |->
        [required |-> {"overall_tone", "tone_details"},
         all |-> {"overall_tone", "tone_details", "conflict_detected",
                  "conflict_details", "key_emotions", "productivity_score"},
         type |-> "sentiment"]]

\* The two tools whose modules are imported by tools/__init__.py: their
\* parameters as TOOLS_SCHEMA declares them.
SchemaParams ==
    [create_decision_record |->
        [required |-> {"title", "context", "decision"},
         all |-> {"title", "context", "decision", "consequences",
                  "participants", "date"},
         type |-> "decision_record"],
     create_report |->
        [required |-> {"title", "summary", "key_points", "action_items"},
         all |-> {"title", "summary", "key_points", "action_items",
                  "attendees", "date"},
         type |-> "report"]]

Signature(name) ==
    IF name \in DOMAIN ToolParams THEN ToolParams[name] ELSE SchemaParams[name]

\* func(**arguments): Python binds the mapping's keys to the parameters and
\* raises TypeError when `arguments` is no mapping, when a parameter without
\* default is missing or when a key names no parameter.
CallTool(name, args) ==
    IF /\ args.kind = "dict"
       /\ Signature(name).required \subseteq args.keys
       /\ args.keys \subseteq Signature(name).all
    THEN [exc |-> "", value |-> Artifact(Signature(name).type)]
    ELSE [exc |-> "TypeError", value |-> NoResult]

\* What execute_tool hands back: the result it returns, or the exception
\* that leaves it.
Returned(r) == [raised |-> FALSE, value |-> r]
Propagated == [raised |-> TRUE, value |-> NoResult]

\* execute_tool with TOOL_REGISTRY[tool_name] in place of .get(tool_name):
\* an unknown name raises KeyError outside the try.
execute_tool_KeyError(tool_name, args) ==
    IF tool_name \notin registry
    THEN Propagated
    ELSE LET r == CallTool(tool_name, args)
         IN  IF r.exc = ""
             THEN Returned(r.value)
             ELSE Returned(ErrorArtifact("Tool execution failed: " \o r.exc))

\* execute_tool without its try/except: the tool's exception leaves it.
execute_tool_NoCatch(tool_name, args) ==
    IF tool_name \notin registry
    THEN Returned(ErrorArtifact("Unknown tool: " \o tool_name))
    ELSE LET r == CallTool(tool_name, args)
         IN  IF r.exc = "" THEN Returned(r.value) ELSE Propagated

execute_tool(tool_name, args) ==
    IF tool_name \notin registry
    THEN Returned(ErrorArtifact("Unknown tool: " \o tool_name))
    ELSE LET r == CallTool(tool_name, args)
         IN  IF r.exc = ""
             THEN Returned(r.value)
             ELSE Returned(ErrorArtifact("Tool execution failed: " \o r.exc))

-----------------------------------------------------------------------------
(* The raw argument payloads and json *)

ObjPayload  == "{\"title\": \"Sync\", \"start_time\": \"2026-02-20T14:00:00\", \"end_time\": \"2026-02-20T15:00:00\"}"
ListPayload == "[1]"
BadJson     == "not json"

\* json.loads on a raw payload: the value, or the exception it raises.
json_loads(raw) ==
    CASE raw = NoneVal     -> [exc |-> "TypeError", value |-> PyNone]
      [] raw = ObjPayload  ->
            [exc |-> "", value |-> PyDict({"title", "start_time", "end_time"})]
      [] raw = ListPayload -> [exc |-> "", value |-> PyList]
      [] OTHER             -> [exc |-> "JSONDecodeError", value |-> PyNone]

\* try: arguments = json.loads(...) except json.JSONDecodeError: arguments = {}
ParseArguments(raw) ==
    LET p == json_loads(raw)
    IN  IF p.exc = "JSONDecodeError"
        THEN [exc |-> "", value |-> PyDict({})]
        ELSE p

\* _truncate(s): len(s) raises TypeError when s is None.
TruncateRaises(raw) == raw = NoneVal

\* json.dumps(result): the text of the result.
json_dumps(r) == [json |-> r]

-----------------------------------------------------------------------------
(* The Model Gateway: what one call of client.chat.completions.create may   *)
(* produce                                                                  *)

\* Tool names the gateway may request: one of the registry, one unknown.
RequestNames == {"create_calendar_invite", "bogus_tool"}

\* Raw argument payloads the gateway may send.
Payloads == {NoneVal, ObjPayload, ListPayload, BadJson}

\* message.content of a response without tool requests.
Contents == {NoneVal, "", "We agreed to ship the beta to all customers on Thursday."}

RECURSIVE Requested(_)
\* Number of tool requests in the first n gateway outcomes.
Requested(n) ==
    IF n = 0 THEN 0 ELSE Requested(n - 1) + Len(script[n].tool_calls)

Irregular(call) ==
    call.name \notin TOOL_REGISTRY \/ call.arguments # ObjPayload

\* Number of irregular tool requests in the gateway outcomes so far, b added.
IrregularWith(b) ==
    Cardinality({ji \in (1..Len(script)) \X (1..MaxBatch) :
                    /\ ji[2] <= Len(script[ji[1]].tool_calls)
                    /\ Irregular(script[ji[1]].tool_calls[ji[2]])})
    + Cardinality({i \in 1..Len(b) : Irregular(b[i])})

\* The batches of n tool requests the gateway may return next; the call
\* identifiers are the ones no earlier request of the run carries.
Batches(n) ==
    LET base == Requested(Len(script))
    IN  { b \in { [i \in 1..n |-> [id |-> base + i, name |-> names[i],
                                   arguments |-> raws[i]]] :
                    names \in [1..n -> RequestNames],
                    raws \in [1..n -> Payloads] } :
            IrregularWith(b) <= MaxIrregular }

GatewayRaised == [kind |-> "raise", content |-> NoneVal, tool_calls |-> <<>>]
NoChoices == [kind |-> "no_choices", content |-> NoneVal, tool_calls |-> <<>>]
TextResponse(c) == [kind |-> "message", content |-> c, tool_calls |-> <<>>]
ToolResponse(b) == [kind |-> "message", content |-> NoneVal, tool_calls |-> b]

NoMessage == [content |-> NoneVal, tool_calls |-> <<>>]

MessageOf(resp) == [content |-> resp.content, tool_calls |-> resp.tool_calls]

\* message.model_dump()
model_dump(m) ==
    [role |-> "assistant", content |-> m.content, tool_calls |-> m.tool_calls]

\* The tool message with the identifier of the batch's first request.
ToolMessage_FirstId(call, r) ==
    [role |-> "tool", tool_call_id |-> message.tool_calls[1].id,
     content |-> json_dumps(r)]

\* The tool message with the text of an error artifact cut down to a fixed
\* one: the model is told less than the caller.
ToolMessage_Redacted(call, r) ==
    [role |-> "tool", tool_call_id |-> call.id,
     content |-> json_dumps(IF r.is_error
                            THEN ErrorArtifact("Tool execution failed")
                            ELSE r)]

ToolMessage(call, r) ==
    [role |-> "tool", tool_call_id |-> call.id, content |-> json_dumps(r)]

\* The initial Conversation with the user message before the system one.
InitialMessages_UserFirst(t) ==
    << [role |-> "user", content |-> UserPrompt(t)],
       [role |-> "system", content |-> SYSTEM_PROMPT] >>

InitialMessages(t) ==
    << [role |-> "system", content |-> SYSTEM_PROMPT],
       [role |-> "user", content |-> UserPrompt(t)] >>

-----------------------------------------------------------------------------
(* The events *)

ErrorEvent(e) == [type |-> "error", content |-> "LLM API error: " \o e]
FinalEvent(c) == [type |-> "final", content |-> c]
ToolCallEvent(name, args) ==
    [type |-> "tool_call", tool |-> name, arguments |-> args]
\* TOOL_TAGS.get(tool_name, tool_name)
ToolTag(name) ==
    CASE name = "create_calendar_invite" -> "calendar"
      [] name = "create_decision_record" -> "decision"
      [] name = "create_report"          -> "report"
      [] OTHER                           -> name

\* The tool_result event with the log tag in place of the tool name.
ToolResultEvent_Tag(name, r) ==
    [type |-> "tool_result", tool |-> ToolTag(name), result |-> r]

ToolResultEvent(name, r) ==
    [type |-> "tool_result", tool |-> name, result |-> r]

\* FinalContent with the default for an absent content only, not for an
\* empty one.
FinalContent_NoneOnly(c) == IF c = NoneVal THEN DefaultFinal ELSE c

\* message.content or "Analysis complete."
FinalContent(c) == IF c = NoneVal \/ c = "" THEN DefaultFinal ELSE c

-----------------------------------------------------------------------------
(* The generator *)

\* The transcripts of the model; run_agent itself accepts the empty one.
Transcripts == {"", "Sarah: let us meet on Thursday."}

\* str.strip() on the transcripts of the model, none of which has white
\* space at its ends.
strip(t) == t

\* Who iterates run_agent: event_stream of main.py, which analyze reaches
\* only with a transcript that is not blank, or a plain for loop as in
\* test_agent.py, which the model runs on the blank transcript.
Consumers == {"adapter", "direct"}

\* analyze up to the creation of the generators: its locals, and the
\* generator run_agent before its first next().
AnalyzeInit ==
    /\ transcript \in Transcripts
    /\ messages = <<>>
    /\ iteration = 0
    /\ message = NoMessage
    /\ idx = 0
    /\ arguments = PyNone
    /\ result = NoResult
    /\ pc = "start"
    /\ events = <<>>
    /\ script = <<>>
    /\ executed = <<>>
    /\ requests = <<>>
    /\ consumer \in Consumers
    /\ consumer = "adapter" <=> strip(transcript) # ""
    /\ collected_results = <<>>
    /\ final_summary = ""
    /\ meeting_title = "Untitled Meeting"
    /\ stream = <<>>
    /\ apc = IF consumer = "adapter" THEN "start" ELSE "none"

\* No second invocation.
NoInvocation == [pc |-> "none"]

\* No tool function called on its own.
NoToolCall == [tool |-> "none"]
NoOutcome == [exc |-> "none"]

Init ==
    /\ AnalyzeInit
    /\ meetings = <<>>
    /\ registry = TOOL_REGISTRY
    /\ active = 1
    /\ parked = NoInvocation
    /\ tool_input = NoToolCall
    /\ tool_output = NoOutcome

\* Start without the yield of the thinking event: the first next() runs on
\* into the gateway call, which here fails.
Start_Eager ==
    /\ pc = "start"
    /\ messages' = InitialMessages(transcript)
    /\ iteration' = 1
    /\ requests' = Append(requests, Request(InitialMessages(transcript)))
    /\ script' = Append(script, GatewayRaised)
    /\ events' = Append(events, ErrorEvent("Connection error."))
    /\ pc' = "at_error"
    /\ UNCHANGED <<transcript, message, idx, arguments, result, executed>>

\* The first next(): the body runs up to the first yield.
Start ==
    /\ pc = "start"
    /\ messages' = InitialMessages(transcript)
    /\ iteration' = 1
    /\ events' = Append(events, ThinkingEvent)
    /\ pc' = "at_thinking"
    /\ UNCHANGED <<requests, transcript, message, idx, arguments, result, script, executed>>

\* The gateway call raises: the except clause yields the error event.
GatewayFails ==
    /\ pc = "at_thinking"
    /\ requests' = Append(requests, Request(messages))
    /\ script' = Append(script, GatewayRaised)
    /\ events' = Append(events, ErrorEvent("Connection error."))
    /\ pc' = "at_error"
    /\ UNCHANGED <<transcript, messages, iteration, message, idx, arguments,
                   result, executed>>

\* The gateway returns a response without choices: response.choices[0],
\* outside the try, raises IndexError and the exception leaves the generator.
GatewayMalformed ==
    /\ pc = "at_thinking"
    /\ requests' = Append(requests, Request(messages))
    /\ script' = Append(script, NoChoices)
    /\ pc' = "raised"
    /\ UNCHANGED <<transcript, messages, iteration, message, idx, arguments,
                   result, events, executed>>

\* GatewayText with the final event yielded only for a non-empty content.
GatewayText_Silent ==
    /\ pc = "at_thinking"
    /\ requests' = Append(requests, Request(messages))
    /\ \E c \in Contents :
         /\ script' = Append(script, TextResponse(c))
         /\ message' = MessageOf(TextResponse(c))
         /\ events' = IF c = NoneVal \/ c = ""
                       THEN events
                       ELSE Append(events, FinalEvent(c))
    /\ pc' = "at_final"
    /\ UNCHANGED <<transcript, messages, iteration, idx, arguments, result,
                   executed>>

\* The response has no tool requests: the final event.
GatewayText ==
    /\ pc = "at_thinking"
    /\ requests' = Append(requests, Request(messages))
    /\ \E c \in Contents :
         /\ script' = Append(script, TextResponse(c))
         /\ message' = MessageOf(TextResponse(c))
         /\ events' = Append(events, FinalEvent(FinalContent(c)))
    /\ pc' = "at_final"
    /\ UNCHANGED <<transcript, messages, iteration, idx, arguments, result,
                   executed>>

\* AcceptBatch without messages.append(message.model_dump()).
AcceptBatch_NoAppend(b) ==
    IF \E i \in 1..Len(b) : TruncateRaises(b[i].arguments)
    THEN /\ pc' = "raised"
         /\ UNCHANGED <<messages, idx, arguments, events>>
    ELSE LET p == ParseArguments(b[1].arguments)
         IN  /\ messages' = messages
             /\ idx' = 1
             /\ IF p.exc # ""
                THEN /\ pc' = "raised"
                     /\ UNCHANGED <<arguments, events>>
                ELSE /\ arguments' = p.value
                     /\ events' = Append(events, ToolCallEvent(b[1].name, p.value))
                     /\ pc' = "at_tool_call"

\* What the generator does with a response that holds tool requests, up to
\* its next yield: the logging loop over all requests, the append of the
\* assistant message, the parse of the first request's payload.
AcceptBatch(b) ==
    IF \E i \in 1..Len(b) : TruncateRaises(b[i].arguments)
    THEN /\ pc' = "raised"
         /\ UNCHANGED <<messages, idx, arguments, events>>
    ELSE LET p == ParseArguments(b[1].arguments)
         IN  /\ messages' = Append(messages, model_dump(MessageOf(ToolResponse(b))))
             /\ idx' = 1
             /\ IF p.exc # ""
                THEN /\ pc' = "raised"
                     /\ UNCHANGED <<arguments, events>>
                ELSE /\ arguments' = p.value
                     /\ events' = Append(events, ToolCallEvent(b[1].name, p.value))
                     /\ pc' = "at_tool_call"

\* The response holds tool requests.
GatewayToolCalls ==
    /\ pc = "at_thinking"
    /\ requests' = Append(requests, Request(messages))
    /\ \E n \in 1..MaxBatch :
         /\ Requested(Len(script)) + n <= MaxToolCalls
         /\ \E b \in Batches(n) :
              /\ script' = Append(script, ToolResponse(b))
              /\ message' = MessageOf(ToolResponse(b))
              /\ AcceptBatch(b)
    /\ UNCHANGED <<transcript, iteration, result, executed>>

\* Resumed after the tool_call event: the tool runs, its result is yielded.
ExecuteTool ==
    /\ pc = "at_tool_call"
    /\ LET call == message.tool_calls[idx]
           r == execute_tool(call.name, arguments)
       IN  /\ executed' = Append(executed, [tool |-> call.name, id |-> call.id])
           /\ IF r.raised
              THEN /\ pc' = "raised"
                   /\ UNCHANGED <<result, events>>
              ELSE /\ result' = r.value
                   /\ events' = Append(events, ToolResultEvent(call.name, r.value))
                   /\ pc' = "at_tool_result"
    /\ UNCHANGED <<requests, transcript, messages, iteration, message, idx, arguments, script>>

\* Resumed after the tool_result event with requests left in the batch: the
\* tool message is appended and the next request's tool_call is yielded.
NextToolCall ==
    /\ pc = "at_tool_result"
    /\ idx < Len(message.tool_calls)
    /\ messages' = Append(messages, ToolMessage(message.tool_calls[idx], result))
    /\ idx' = idx + 1
    /\ LET call == message.tool_calls[idx + 1]
           p == ParseArguments(call.arguments)
       IN  IF p.exc # ""
           THEN /\ pc' = "raised"
                /\ UNCHANGED <<arguments, events>>
           ELSE /\ arguments' = p.value
                /\ events' = Append(events, ToolCallEvent(call.name, p.value))
                /\ pc' = "at_tool_call"
    /\ UNCHANGED <<requests, transcript, iteration, message, result, script, executed>>

\* NextIteration leaving the batch after any request, not only the last.
NextIteration_Break ==
    /\ pc = "at_tool_result"
    /\ iteration < max_iterations
    /\ messages' = Append(messages, ToolMessage(message.tool_calls[idx], result))
    /\ iteration' = iteration + 1
    /\ events' = Append(events, ThinkingEvent)
    /\ pc' = "at_thinking"
    /\ UNCHANGED <<requests, transcript, message, idx, arguments, result, script, executed>>

\* Resumed after the last tool_result of a batch, iterations left: the tool
\* message is appended and the next iteration yields its thinking event.
NextIteration ==
    /\ pc = "at_tool_result"
    /\ idx = Len(message.tool_calls)
    /\ iteration < max_iterations
    /\ messages' = Append(messages, ToolMessage(message.tool_calls[idx], result))
    /\ iteration' = iteration + 1
    /\ events' = Append(events, ThinkingEvent)
    /\ pc' = "at_thinking"
    /\ UNCHANGED <<requests, transcript, message, idx, arguments, result, script, executed>>

\* BudgetExhausted without the append of the last tool message: the loop is
\* left right after the yield of tool_result.
BudgetExhausted_NoAppend ==
    /\ pc = "at_tool_result"
    /\ idx = Len(message.tool_calls)
    /\ iteration >= max_iterations
    /\ events' = Append(events, FinalEvent(BudgetFinal))
    /\ pc' = "at_final"
    /\ UNCHANGED <<requests, transcript, messages, iteration, message, idx,
                   arguments, result, script, executed>>

\* Resumed after the last tool_result of the last iteration: the for loop is
\* exhausted and the synthetic final event is yielded.
BudgetExhausted ==
    /\ pc = "at_tool_result"
    /\ idx = Len(message.tool_calls)
    /\ iteration >= max_iterations
    /\ messages' = Append(messages, ToolMessage(message.tool_calls[idx], result))
    /\ events' = Append(events, FinalEvent(BudgetFinal))
    /\ pc' = "at_final"
    /\ UNCHANGED <<requests, transcript, iteration, message, idx, arguments, result,
                   script, executed>>

\* Return without the return statement: the for loop goes on.
Return_FallThrough ==
    /\ pc \in {"at_final", "at_error"}
    /\ events' = Append(events, ThinkingEvent)
    /\ pc' = "at_thinking"
    /\ UNCHANGED <<requests, transcript, messages, iteration, message, idx, arguments,
                   result, script, executed>>

\* Resumed after a final or an error event: the generator returns.
Return ==
    /\ pc \in {"at_final", "at_error"}
    /\ pc' = "returned"
    /\ UNCHANGED <<requests, transcript, messages, iteration, message, idx, arguments,
                   result, events, script, executed>>

\* The consumer stops iterating while the generator is suspended at a yield:
\* close() raises GeneratorExit there, which no except clause of run_agent
\* catches.
Close ==
    /\ pc \in {"at_thinking", "at_tool_call", "at_tool_result", "at_final",
               "at_error"}
    /\ pc' = "closed"
    /\ UNCHANGED <<requests, transcript, messages, iteration, message, idx, arguments,
                   result, events, script, executed>>

-----------------------------------------------------------------------------
(* The Event Stream Adapter: analyze.event_stream of main.py *)

\* str.split() on the texts a final event carries.
split(s) ==
    CASE s = "" -> <<>>
      [] s = DefaultFinal -> <<"Analysis", "complete.">>
      [] s = BudgetFinal ->
            <<"Agent", "finished", "(max", "iterations", "reached).">>
      [] s = "We agreed to ship the beta to all customers on Thursday." ->
            <<"We", "agreed", "to", "ship", "the", "beta", "to", "all",
              "customers", "on", "Thursday.">>
      [] OTHER -> <<s>>

RECURSIVE join(_)
\* " ".join(words)
join(words) ==
    IF words = <<>> THEN ""
    ELSE IF Len(words) = 1 THEN words[1]
    ELSE words[1] \o " " \o join(Tail(words))

\* " ".join(words[:8]) + ("..." if len(words) > 8 else "")
Title(summary) ==
    LET words == split(summary)
        n == IF Len(words) > 8 THEN 8 ELSE Len(words)
    IN  join(SubSeq(words, 1, n)) \o (IF Len(words) > 8 THEN "..." ELSE "")

\* The item event_stream yields for an event of run_agent.
SSE(event) == [event |-> event.type, data |-> json_dumps(event)]

MeetingSaved(meeting_id) ==
    [event |-> "meeting_saved",
     data |-> json_dumps([type |-> "meeting_saved", meeting_id |-> meeting_id])]

\* The row save_meeting inserts; the table numbers its rows from 1.
save_meeting(t, results, summary, title) ==
    [id |-> Len(meetings) + 1, title |-> title, transcript |-> t,
     results_json |-> json_dumps(results), summary |-> summary]

\* event_stream with save_meeting in a finally clause: the run is saved
\* however the loop over run_agent is left.
event_stream_Finally ==
    IF consumer # "adapter"
    THEN UNCHANGED <<adapterVars, meetings>>
    ELSE IF events' # events
    THEN LET event == events'[Len(events')]
         IN  /\ collected_results' =
                    IF event.type = "tool_result"
                    THEN Append(collected_results, event.result)
                    ELSE collected_results
             /\ final_summary' =
                    IF event.type = "final" THEN event.content
                    ELSE final_summary
             /\ meeting_title' =
                    IF event.type = "final" THEN Title(event.content)
                    ELSE meeting_title
             /\ stream' = Append(stream, SSE(event))
             /\ apc' = "at_event"
             /\ UNCHANGED <<consumer, meetings>>
    ELSE IF pc' = "returned"
    THEN LET row == save_meeting(transcript, collected_results,
                                 final_summary, meeting_title)
         IN  /\ meetings' = Append(meetings, row)
             /\ stream' = Append(stream, MeetingSaved(row.id))
             /\ apc' = "at_meeting_saved"
             /\ UNCHANGED <<consumer, collected_results, final_summary,
                            meeting_title>>
    ELSE LET row == save_meeting(transcript, collected_results,
                                 final_summary, meeting_title)
         IN  /\ meetings' = Append(meetings, row)
             /\ apc' = pc'
             /\ UNCHANGED <<consumer, collected_results, final_summary,
                            meeting_title, stream>>

\* What event_stream does within the next() that resumed run_agent: with
\* the event run_agent yielded, the body of its for loop up to its own
\* yield; at run_agent's return, save_meeting and the yield of
\* meeting_saved; at an exception or a close, nothing, for it has no except
\* and no finally clause.
event_stream ==
    IF consumer # "adapter"
    THEN UNCHANGED <<adapterVars, meetings>>
    ELSE IF events' # events
    THEN LET event == events'[Len(events')]
         IN  /\ collected_results' =
                    IF event.type = "tool_result"
                    THEN Append(collected_results, event.result)
                    ELSE collected_results
             /\ final_summary' =
                    IF event.type = "final" THEN event.content
                    ELSE final_summary
             /\ meeting_title' =
                    IF event.type = "final" THEN Title(event.content)
                    ELSE meeting_title
             /\ stream' = Append(stream, SSE(event))
             /\ apc' = "at_event"
             /\ UNCHANGED <<consumer, meetings>>
    ELSE IF pc' = "returned"
    THEN LET row == save_meeting(transcript, collected_results,
                                 final_summary, meeting_title)
         IN  /\ meetings' = Append(meetings, row)
             /\ stream' = Append(stream, MeetingSaved(row.id))
             /\ apc' = "at_meeting_saved"
             /\ UNCHANGED <<consumer, collected_results, final_summary,
                            meeting_title>>
    ELSE /\ apc' = pc'
         /\ UNCHANGED <<consumer, collected_results, final_summary,
                        meeting_title, stream, meetings>>

\* One next() of the consumer on the generator: the generator's step and
\* what the consumer does with its outcome.
Pull(step) ==
    /\ step
    /\ event_stream
    /\ UNCHANGED <<registry, otherVars, toolVars>>

\* Resumed after meeting_saved: event_stream returns.
StreamEnds ==
    /\ apc = "at_meeting_saved"
    /\ apc' = "returned"
    /\ UNCHANGED <<agentVars, consumer, collected_results, final_summary,
                   meeting_title, stream, meetings>>
    /\ UNCHANGED <<registry, otherVars, toolVars>>

\* The client goes away while event_stream is suspended at meeting_saved.
StreamClosed ==
    /\ apc = "at_meeting_saved"
    /\ apc' = "closed"
    /\ UNCHANGED <<agentVars, consumer, collected_results, final_summary,
                   meeting_title, stream, meetings>>
    /\ UNCHANGED <<registry, otherVars, toolVars>>

Next ==
    \/ Pull(Start)
    \/ Pull(GatewayFails)
    \/ Pull(GatewayMalformed)
    \/ Pull(GatewayText)
    \/ Pull(GatewayToolCalls)
    \/ Pull(ExecuteTool)
    \/ Pull(NextToolCall)
    \/ Pull(NextIteration)
    \/ Pull(BudgetExhausted)
    \/ Pull(Return)
    \/ Pull(Close)
    \/ StreamEnds
    \/ StreamClosed

Spec == Init /\ [][Next]_vars

TypeOK ==
    /\ iteration \in 0..max_iterations
    /\ pc \in {"start", "at_thinking", "at_tool_call", "at_tool_result",
               "at_final", "at_error", "returned", "raised", "closed"}
    /\ Len(script) <= max_iterations

-----------------------------------------------------------------------------
(* Two concurrent invocations of analyze.  Each request has its own call   *)
(* of analyze and of run_agent, with its own locals; the server runs the   *)
(* next() calls of the two event streams in any order.  The variables      *)
(* describe the invocation that runs, `parked` holds the other one.        *)

\* The locals and logs of the invocation that runs.
Locals ==
    [transcript |-> transcript, messages |-> messages,
     iteration |-> iteration, message |-> message, idx |-> idx,
     arguments |-> arguments, result |-> result, pc |-> pc,
     events |-> events, script |-> script, executed |-> executed,
     requests |-> requests, consumer |-> consumer,
     collected_results |-> collected_results,
     final_summary |-> final_summary, meeting_title |-> meeting_title,
     stream |-> stream, apc |-> apc]

\* The locals and logs of an invocation of analyze for the transcript t,
\* before the first next().
NewInvocation(t) ==
    [transcript |-> t, messages |-> <<>>, iteration |-> 0,
     message |-> NoMessage, idx |-> 0, arguments |-> PyNone,
     result |-> NoResult, pc |-> "start", events |-> <<>>, script |-> <<>>,
     executed |-> <<>>, requests |-> <<>>, consumer |-> "adapter",
     collected_results |-> <<>>, final_summary |-> "",
     meeting_title |-> "Untitled Meeting", stream |-> <<>>, apc |-> "start"]

\* The transcript of the second request.
SecondTranscript == "Omar: the report is due on Friday."

\* Two requests with different transcripts; which of the two the variables
\* describe at first makes no difference, Switch being always possible.
TwoInit ==
    /\ AnalyzeInit
    /\ transcript = CHOOSE t \in Transcripts : strip(t) # ""
    /\ consumer = "adapter"
    /\ meetings = <<>>
    /\ registry = TOOL_REGISTRY
    /\ active = 1
    /\ parked = NewInvocation(SecondTranscript)
    /\ tool_input = NoToolCall
    /\ tool_output = NoOutcome

\* Switch with `messages` a list of the module, shared by the invocations,
\* instead of a local of run_agent.
Switch_SharedMessages ==
    /\ parked.pc # "none"
    /\ parked' = Locals
    /\ active' = 3 - active
    /\ transcript' = parked.transcript
    /\ messages' = messages
    /\ iteration' = parked.iteration
    /\ message' = parked.message
    /\ idx' = parked.idx
    /\ arguments' = parked.arguments
    /\ result' = parked.result
    /\ pc' = parked.pc
    /\ events' = parked.events
    /\ script' = parked.script
    /\ executed' = parked.executed
    /\ requests' = parked.requests
    /\ consumer' = parked.consumer
    /\ collected_results' = parked.collected_results
    /\ final_summary' = parked.final_summary
    /\ meeting_title' = parked.meeting_title
    /\ stream' = parked.stream
    /\ apc' = parked.apc
    /\ UNCHANGED <<meetings, registry, toolVars>>

\* The server turns to the other invocation: each invocation keeps its own
\* locals, the meetings table and the registry are the ones of the process.
Switch ==
    /\ parked.pc # "none"
    /\ parked' = Locals
    /\ active' = 3 - active
    /\ transcript' = parked.transcript
    /\ messages' = parked.messages
    /\ iteration' = parked.iteration
    /\ message' = parked.message
    /\ idx' = parked.idx
    /\ arguments' = parked.arguments
    /\ result' = parked.result
    /\ pc' = parked.pc
    /\ events' = parked.events
    /\ script' = parked.script
    /\ executed' = parked.executed
    /\ requests' = parked.requests
    /\ consumer' = parked.consumer
    /\ collected_results' = parked.collected_results
    /\ final_summary' = parked.final_summary
    /\ meeting_title' = parked.meeting_title
    /\ stream' = parked.stream
    /\ apc' = parked.apc
    /\ UNCHANGED <<meetings, registry, toolVars>>

\* The gateway is asked at most TwoMaxRequests times by each invocation,
MayRequest == Len(script) < TwoMaxRequests

\* and requests at most TwoMaxCalls tools from it, registered or not, each
\* with a JSON object as payload.
WithinTwoBounds ==
    LET calls == script'[Len(script')].tool_calls
    IN  /\ Requested(Len(script)) + Len(calls) <= TwoMaxCalls
        /\ \A i \in 1..Len(calls) : calls[i].arguments = ObjPayload

\* The steps of the invocation that runs, and the switch to the other one.
\* Both clients stay connected to the end of their streams; the exhausted
\* budget of five iterations is out of reach of the bound.
TwoNext ==
    \/ Pull(Start)
    \/ MayRequest /\ Pull(GatewayFails)
    \/ MayRequest /\ Pull(GatewayMalformed)
    \/ MayRequest /\ Pull(GatewayText)
    \/ MayRequest /\ Pull(GatewayToolCalls) /\ WithinTwoBounds
    \/ Pull(ExecuteTool)
    \/ Pull(NextToolCall)
    \/ Pull(NextIteration)
    \/ Pull(Return)
    \/ StreamEnds
    \/ Switch

TwoSpec == TwoInit /\ [][TwoNext]_vars

-----------------------------------------------------------------------------
(* The tool function create_action_items of tools/action_items.py, called  *)
(* on its own                                                               *)

\* dict.get(key, default): a dict is a function from its keys.
get(d, key, default) == IF key \in DOMAIN d THEN d[key] ELSE default

\* x or default, for a string or None.
OrElse(x, default) == IF x = NoneVal \/ x = "" THEN default ELSE x

ItemFields == {"task", "assignee", "deadline", "priority"}

\* The values an entry of items may give to a field: JSON strings, and null
\* for task and priority.
FieldValues ==
    [task |-> {"Draft \"JWT\" impl", NoneVal},
     assignee |-> {"John"},
     deadline |-> {"Friday"},
     priority |-> {"high", "urgent", NoneVal}]

\* The entries of items: every subset of the fields may be given.
ItemDicts ==
    UNION { { d \in [D -> UNION {FieldValues[f] : f \in ItemFields}] :
                \A f \in D : d[f] \in FieldValues[f] } :
            D \in SUBSET ItemFields }

\* What datetime.now().strftime("%Y-%m-%d") may give.
Days == {"2026-11-03"}

\* The calls of create_action_items.
ActionItemsCalls ==
    { [tool |-> "create_action_items", items |-> items,
       meeting_title |-> t, date |-> d, now |-> now] :
        items \in UNION { [1..n -> ItemDicts] : n \in 0..MaxItems },
        t \in {NoneVal, "Sprint review"},
        d \in {NoneVal, "2026-01-15"},
        now \in Days }

\* str.capitalize() on the priorities of the model.
capitalize(x) ==
    CASE x = "high" -> "High"
      [] x = "urgent" -> "Urgent"
      [] x = "medium" -> "Medium"
      [] x = "low" -> "Low"
      [] OTHER -> x

\* priority_emoji.get(priority, white circle), the emoji by its name.
priority_emoji(x) ==
    CASE x = "high" -> "red circle"
      [] x = "medium" -> "yellow circle"
      [] x = "low" -> "green circle"
      [] OTHER -> "white circle"

\* task.replace('"', '""') on the tasks of the model.
task_escaped(x) ==
    CASE x = "Draft \"JWT\" impl" -> "Draft \"\"JWT\"\" impl"
      [] OTHER -> x

\* One entry of items with the defaults for the fields it lacks.
NormalizedItem(item) ==
    [task |-> get(item, "task", ""),
     assignee |-> get(item, "assignee", "Unassigned"),
     deadline |-> get(item, "deadline", "TBD"),
     priority |-> get(item, "priority", "medium")]

\* create_action_items(items, meeting_title, date), the clock reading now:
\* the artifact it returns, or the exception that leaves it.  A priority
\* that is None has no capitalize(), a task that is None no replace().
create_action_items(items, title_arg, date_arg, now) ==
    LET action_date == OrElse(date_arg, now)
        title == OrElse(title_arg, "Meeting")
        normalized == [i \in 1..Len(items) |-> NormalizedItem(items[i])]
        md_rows == [i \in 1..Len(items) |->
                      [n |-> i,
                       emoji |-> priority_emoji(normalized[i].priority),
                       priority |-> capitalize(normalized[i].priority),
                       task |-> normalized[i].task,
                       assignee |-> normalized[i].assignee,
                       deadline |-> normalized[i].deadline]]
        csv_lines == [i \in 1..Len(items) |->
                        [n |-> i,
                         priority |-> normalized[i].priority,
                         task |-> task_escaped(normalized[i].task),
                         assignee |-> normalized[i].assignee,
                         deadline |-> normalized[i].deadline]]
    IN  IF \E i \in 1..Len(items) :
              normalized[i].priority = NoneVal \/ normalized[i].task = NoneVal
        THEN [exc |-> "AttributeError"]
        ELSE [exc |-> "",
              value |->
                [type |-> "action_items",
                 items |-> normalized,
                 markdown |-> [title |-> title, date |-> action_date,
                               total |-> Len(normalized), rows |-> md_rows],
                 csv |-> csv_lines,
                 metadata |-> [meeting_title |-> title, date |-> action_date,
                               total_items |-> Len(normalized)]]]

-----------------------------------------------------------------------------
(* The tool function create_calendar_invite of tools/calendar_invite.py     *)

\* Optional[list[str]]: None, or a list.
NoList == [none |-> TRUE]
SomeList(l) == [none |-> FALSE, list |-> l]

\* attendees or [], and the truth value of attendees.
ListOrEmpty(a) == IF a.none THEN <<>> ELSE a.list
Truthy(a) == ~a.none /\ a.list # <<>>

\* The dates of the model in calendar order, and their %Y%m%d forms.
DateOrder == <<"2026-11-03", "2026-11-04", "2026-11-05">>
DateIndex(d) == CHOOSE i \in 1..Len(DateOrder) : DateOrder[i] = d
CompactDate(d) ==
    CASE d = "2026-11-03" -> "20261103"
      [] d = "2026-11-04" -> "20261104"
      [] d = "2026-11-05" -> "20261105"

\* A datetime with second and microsecond zero.
DateTime(d, h, m) == [date |-> d, hour |-> h, minute |-> m]

\* dt_start > dt_end on datetimes.
After(a, b) ==
    \/ DateIndex(a.date) > DateIndex(b.date)
    \/ /\ a.date = b.date
       /\ a.hour * 60 + a.minute > b.hour * 60 + b.minute

\* A number on two digits.
pad2(n) == IF n < 10 THEN "0" \o ToString(n) ELSE ToString(n)

\* datetime.isoformat() and datetime.strftime("%Y%m%dT%H%M%S").
isoformat(dt) == dt.date \o "T" \o pad2(dt.hour) \o ":" \o pad2(dt.minute) \o ":00"
strftime(dt) == CompactDate(dt.date) \o "T" \o pad2(dt.hour) \o pad2(dt.minute) \o "00"

\* datetime.fromisoformat(s) on the strings of the model: a date alone is
\* midnight of that date, any other text raises ValueError.
fromisoformat(s) ==
    CASE s = "2026-11-05T14:00:00" ->
           [exc |-> "", value |-> DateTime("2026-11-05", 14, 0)]
      [] s = "2026-11-05T15:30:00" ->
           [exc |-> "", value |-> DateTime("2026-11-05", 15, 30)]
      [] s = "2026-11-05" ->
           [exc |-> "", value |-> DateTime("2026-11-05", 0, 0)]
      [] OTHER -> [exc |-> "ValueError"]

\* The strings a call gives as start_time and end_time.
TimeStrings ==
    {"2026-11-05T14:00:00", "2026-11-05T15:30:00", "2026-11-05", "TBD", ""}

\* The dates datetime.now() may read during one call: the clock does not go
\* back between two readings.
ClockDays == {"2026-11-03", "2026-11-04"}
Clocks ==
    { c \in [1..3 -> ClockDays] :
        \A i \in 1..2 : DateIndex(c[i]) <= DateIndex(c[i + 1]) }

\* "@" in attendee, on the attendees of the model.
HasAt(a) == a = "ana@corp.example"

AttendeeLists ==
    {NoList, SomeList(<<>>), SomeList(<<"ana@corp.example", "Bob">>),
     SomeList(<<"Bob", "ana@corp.example">>)}

\* The calls of create_calendar_invite; description is left to its default.
CalendarCalls ==
    { [tool |-> "create_calendar_invite", title |-> t, start_time |-> s,
       end_time |-> e, description |-> "", attendees |-> a, clock |-> c,
       uid |-> "uid-1"] :
        t \in {"", "Sprint sync"}, s \in TimeStrings, e \in TimeStrings,
        a \in AttendeeLists, c \in Clocks }

\* The try statement with one fallback per value: a value that does not
\* parse gets its default, the other one is kept.
ParseTimes_Separately(start_time, end_time, clock) ==
    LET s == fromisoformat(start_time)
        e == fromisoformat(end_time)
    IN  [dt_start |-> IF s.exc = "" THEN s.value
                      ELSE DateTime(clock[1], 9, 0),
         dt_end |-> IF e.exc = "" THEN e.value
                    ELSE DateTime(clock[2], 10, 0)]

\* dt_start and dt_end as the try statement leaves them: the parsed values,
\* or 09:00 and 10:00 of the clock's day when either parse raised.
ParseTimes(start_time, end_time, clock) ==
    LET s == fromisoformat(start_time)
        e == fromisoformat(end_time)
    IN  IF s.exc = "" /\ e.exc = ""
        THEN [dt_start |-> s.value, dt_end |-> e.value]
        ELSE [dt_start |-> DateTime(clock[1], 9, 0),
              dt_end |-> DateTime(clock[2], 10, 0)]

\* The attendee property of the event: add() appends an address, the
\* assignment of a vText replaces what the property held.
RECURSIVE AttendeeProperty(_)
AttendeeProperty(l) ==
    IF l = <<>> THEN <<>>
    ELSE LET a == l[Len(l)]
             before == AttendeeProperty(SubSeq(l, 1, Len(l) - 1))
         IN  IF HasAt(a) THEN Append(before, "mailto:" \o a)
             ELSE <<a>>

\* urllib.parse.quote on the titles and descriptions of the model.
quote(s) ==
    CASE s = "Sprint sync" -> "Sprint%20sync"
      [] OTHER -> s

_build_google_calendar_url(title, description, start, end) ==
    "https://calendar.google.com/calendar/render"
        \o "?action=TEMPLATE&text=" \o quote(title)
        \o "&dates=" \o strftime(start) \o "/" \o strftime(end)
        \o "&details=" \o quote(description)

\* create_calendar_invite(title, start_time, end_time, description,
\* attendees), with the clock readings and the uuid it draws.
create_calendar_invite(title, start_time, end_time, description, attendees, clock, uid) ==
    LET dt == ParseTimes(start_time, end_time, clock)
        ics == [summary |-> title, dtstart |-> dt.dt_start,
                dtend |-> dt.dt_end, description |-> description,
                uid |-> uid, dtstamp |-> clock[3],
                attendee |-> IF Truthy(attendees)
                             THEN AttendeeProperty(attendees.list)
                             ELSE <<>>]
    IN  [exc |-> "",
         value |->
           [type |-> "calendar_invite",
            ics_content |-> ics,
            google_calendar_url |->
                _build_google_calendar_url(title, description, dt.dt_start,
                                           dt.dt_end),
            event_details |->
                [title |-> title, description |-> description,
                 start_time |-> isoformat(dt.dt_start),
                 end_time |-> isoformat(dt.dt_end),
                 attendees |-> ListOrEmpty(attendees)]]]

-----------------------------------------------------------------------------
(* The tool function analyze_sentiment of tools/sentiment.py                *)

\* Optional[int]: None, or an integer.
NoInt == [none |-> TRUE]
SomeInt(n) == [none |-> FALSE, value |-> n]

\* The integers a call gives as productivity_score reach MaxScore either way.
Scores == {NoInt} \cup {SomeInt(n) : n \in (0 - MaxScore)..MaxScore}

min(a, b) == IF a <= b THEN a ELSE b
max(a, b) == IF a >= b THEN a ELSE b

\* productivity_score or 5: None and 0 are both false.
ScoreOr(p, default) == IF p.none \/ p.value = 0 THEN default ELSE p.value

\* str.lower() and str.capitalize() on the tones of the model.
lower(x) ==
    CASE x = "Tense" -> "tense"
      [] OTHER -> x
tone_capitalize(x) ==
    CASE x = "heated" -> "Heated"
      [] OTHER -> x

\* tone_badges.get(tone, default).
tone_badges(tone, default) ==
    CASE tone = "productive" -> <<"Productive", "green">>
      [] tone = "tense" -> <<"Tension Detected", "red">>
      [] tone = "casual" -> <<"Casual", "blue">>
      [] tone = "mixed" -> <<"Mixed Tone", "yellow">>
      [] tone = "positive" -> <<"Positive", "green">>
      [] tone = "negative" -> <<"Negative", "red">>
      [] tone = "neutral" -> <<"Neutral", "gray">>
      [] OTHER -> default

EmotionLists == {NoList, SomeList(<<"enthusiasm">>)}

\* The calls of analyze_sentiment.
SentimentCalls ==
    { [tool |-> "analyze_sentiment", overall_tone |-> t, tone_details |-> d,
       conflict_detected |-> c, conflict_details |-> cd, key_emotions |-> k,
       productivity_score |-> p] :
        t \in {"productive", "Tense", "heated", ""},
        d \in {"", "Focused on the release."},
        c \in BOOLEAN, cd \in {NoneVal, "Budget dispute"},
        k \in EmotionLists, p \in Scores }

analyze_sentiment(overall_tone, tone_details, conflict_detected, conflict_details, key_emotions, productivity_score) ==
    LET emotions == ListOrEmpty(key_emotions)
        score == min(max(ScoreOr(productivity_score, 5), 1), 10)
        badge == tone_badges(lower(overall_tone),
                             <<tone_capitalize(overall_tone), "gray">>)
        conflict == conflict_detected /\ badge[2] # "red"
        badge_text == IF conflict THEN badge[1] \o " + Conflict" ELSE badge[1]
        badge_color == IF conflict THEN "yellow" ELSE badge[2]
    IN  [exc |-> "",
         value |->
           [type |-> "sentiment",
            tone |-> overall_tone,
            badge |-> badge_text,
            badge_color |-> badge_color,
            conflict_detected |-> conflict_detected,
            details |->
                [overall_tone |-> overall_tone,
                 tone_details |-> tone_details,
                 conflict_detected |-> conflict_detected,
                 conflict_details |-> OrElse(conflict_details, ""),
                 key_emotions |-> emotions,
                 productivity_score |-> score]]]

-----------------------------------------------------------------------------
(* A tool function called on its own                                        *)

\* The calls a tool function may receive.
ToolCalls == ActionItemsCalls \cup CalendarCalls \cup SentimentCalls

\* What execute_tool returns for a registered tool whose function had the
\* outcome out: the value it returned, or the error artifact made of the
\* exception that left it.
Dispatch(out) ==
    IF out.exc = "" THEN out.value
    ELSE [error |-> "Tool execution failed: " \o out.exc]

\* A tool function is about to be called; no invocation of analyze runs.
ToolInit ==
    /\ AnalyzeInit
    /\ transcript = ""
    /\ meetings = <<>>
    /\ registry = TOOL_REGISTRY
    /\ active = 1
    /\ parked = NoInvocation
    /\ tool_input \in ToolCalls
    /\ tool_output = NoOutcome

\* The call of create_action_items.
CallActionItems ==
    /\ tool_input.tool = "create_action_items"
    /\ tool_output = NoOutcome
    /\ tool_output' = create_action_items(tool_input.items,
                                          tool_input.meeting_title,
                                          tool_input.date, tool_input.now)
    /\ UNCHANGED <<agentVars, adapterVars, meetings, registry, otherVars,
                   tool_input>>

\* The call of create_calendar_invite.
CallCalendarInvite ==
    /\ tool_input.tool = "create_calendar_invite"
    /\ tool_output = NoOutcome
    /\ tool_output' = create_calendar_invite(tool_input.title,
                                             tool_input.start_time,
                                             tool_input.end_time,
                                             tool_input.description,
                                             tool_input.attendees,
                                             tool_input.clock, tool_input.uid)
    /\ UNCHANGED <<agentVars, adapterVars, meetings, registry, otherVars,
                   tool_input>>

\* The call of analyze_sentiment.
CallSentiment ==
    /\ tool_input.tool = "analyze_sentiment"
    /\ tool_output = NoOutcome
    /\ tool_output' = analyze_sentiment(tool_input.overall_tone,
                                        tool_input.tone_details,
                                        tool_input.conflict_detected,
                                        tool_input.conflict_details,
                                        tool_input.key_emotions,
                                        tool_input.productivity_score)
    /\ UNCHANGED <<agentVars, adapterVars, meetings, registry, otherVars,
                   tool_input>>

ToolNext ==
    \/ CallActionItems
    \/ CallCalendarInvite
    \/ CallSentiment

ToolSpec == ToolInit /\ [][ToolNext]_vars

-----------------------------------------------------------------------------
(* The event sequence, read against the gateway's outcomes *)

Last(s) == s[Len(s)]

IsTerminal(e) == e.type \in {"final", "error"}

HasTools(resp) == resp.kind = "message" /\ resp.tool_calls # <<>>

IsText(resp) == resp.kind = "message" /\ resp.tool_calls = <<>>

IsToolEvent(e) == e.type \in {"tool_call", "tool_result"}
IsToolCall(e) == e.type = "tool_call"
IsToolResult(e) == e.type = "tool_result"
IsError(e) == e.type = "error"

RECURSIVE SplitAtThinking(_, _)
\* The events from position p on, cut at the thinking events and added to
\* the segments acc.
SplitAtThinking(p, acc) ==
    IF p > Len(events)
    THEN acc
    ELSE IF events[p].type = "thinking"
         THEN SplitAtThinking(p + 1, Append(acc, <<>>))
         ELSE IF acc = <<>>
              THEN SplitAtThinking(p + 1, acc)
              ELSE SplitAtThinking(p + 1,
                       [acc EXCEPT ![Len(acc)] = Append(@, events[p])])

\* Segments[j]: the events after the j-th thinking event and before the
\* next one.  Iteration j of the loop yields the j-th thinking event and
\* then makes the j-th gateway call.
Segments == SplitAtThinking(1, <<>>)

\* The tool_call and tool_result events of segment j of S.
ToolEvents(S, j) == SelectSeq(S[j], IsToolEvent)

\* The iterations whose gateway response held tool requests.
BatchIterations == {j \in 1..Len(script) : HasTools(script[j])}

\* The requests of the run, as <<iteration, position in the batch>>.
Requests ==
    {ji \in BatchIterations \X (1..MaxBatch) :
        ji[2] <= Len(script[ji[1]].tool_calls)}

RequestAt(ji) == script[ji[1]].tool_calls[ji[2]]

\* The generator has left the batch of iteration j behind: it was resumed
\* after the last tool_result it yielded for that batch and yielded the next
\* thinking event or the final event.
PastBatch(S, j) ==
    \/ j < Len(S)
    \/ /\ j = Len(script)
       /\ events # <<>>
       /\ Last(events).type = "final"

\* Request i of iteration j was dispatched: its tool_call event was yielded
\* and the generator resumed from it, to yield the tool_result or to let the
\* exception of the dispatch out.
Dispatched(S, j, i) ==
    \/ Len(ToolEvents(S, j)) >= 2 * i
    \/ /\ Len(ToolEvents(S, j)) = 2 * i - 1
       /\ pc = "raised"

-----------------------------------------------------------------------------
(* C1 *)

\* C1: the event sequence holds at most one final or error event, and an
\* event of these kinds is the last event of the sequence.
C1_TerminalEventIsLast ==
    \A p \in 1..Len(events) : IsTerminal(events[p]) => p = Len(events)

\* A run that returned after tool events and a final event.
C1_Witness ==
    /\ pc = "returned"
    /\ Len(events) > 4
    /\ Last(events).type = "final"

-----------------------------------------------------------------------------
(* C2 *)

\* C2: when the stream of a run whose consumer kept pulling has ended (the
\* generator returned or an exception left it), the consumer has received a
\* terminating event, final or error, as the last event.
C2_TerminatingEventReceived ==
    pc \in {"returned", "raised"} =>
        /\ events # <<>>
        /\ IsTerminal(Last(events))

-----------------------------------------------------------------------------
(* C3 *)

\* C3: the gateway is called at most 5 times, and a run that received tool
\* requests in each of 5 responses and then ended has the synthetic final
\* event as its last event and no error event.
C3_BudgetEndsWithSyntheticFinal ==
    /\ Len(script) <= 5
    /\ ( /\ Len(script) = 5
         /\ \A j \in 1..5 : HasTools(script[j])
         /\ pc \in {"returned", "raised"} )
       => /\ Last(events) = FinalEvent(BudgetFinal)
          /\ \A p \in 1..Len(events) : events[p].type # "error"

-----------------------------------------------------------------------------
(* C4 *)

\* C4: once a gateway call has failed (it raised, or its response has no
\* choices) the run holds exactly one error event, it is the last event, and
\* the failed call is the last gateway call.
C4_GatewayFailureYieldsOneError ==
    \A j \in 1..Len(script) :
        script[j].kind \in {"raise", "no_choices"} =>
            /\ j = Len(script)
            /\ Len(SelectSeq(events, IsError)) = 1
            /\ Last(events).type = "error"

-----------------------------------------------------------------------------
(* C5 *)

\* C5: in a run that reached Completed (its last gateway response is a text
\* answer), every batch has as many tool_call events as tool_result events
\* as requests, and the i-th tool_call and the i-th tool_result carry the
\* name of the i-th request.
C5_CallsMatchResults ==
    (script # <<>> /\ IsText(Last(script))) =>
        LET S == Segments
        IN  \A j \in BatchIterations :
                LET b == script[j].tool_calls
                    calls == SelectSeq(S[j], IsToolCall)
                    results == SelectSeq(S[j], IsToolResult)
                IN  /\ Len(calls) = Len(b)
                    /\ Len(results) = Len(b)
                    /\ \A i \in 1..Len(b) :
                         /\ calls[i].tool = b[i].name
                         /\ results[i].tool = b[i].name

\* A completed run with a batch of two requests of a registered tool.
C5_Witness ==
    /\ script # <<>>
    /\ IsText(Last(script))
    /\ \E j \in BatchIterations :
         /\ Len(script[j].tool_calls) = 2
         /\ script[j].tool_calls[1].name \in TOOL_REGISTRY

-----------------------------------------------------------------------------
(* C6 *)

\* C6: the tool events of an iteration alternate tool_call, tool_result in the
\* order of the gateway's requests (the (2i-1)-th is the tool_call of request
\* i with its parsed arguments, the 2i-th its tool_result), a tool runs only
\* between its tool_call and its tool_result, and the next thinking event
\* comes only after both events of every request of the batch.
C6_OneAtATimeInOrder ==
    LET S == Segments
    IN  /\ events # <<>> => events[1].type = "thinking"
        /\ \A j \in 1..Len(S) :
             LET seg == ToolEvents(S, j)
                 b == IF j <= Len(script) THEN script[j].tool_calls ELSE <<>>
             IN  /\ Len(seg) <= 2 * Len(b)
                 /\ \A q \in 1..Len(seg) :
                      LET i == (q + 1) \div 2
                      IN  IF q % 2 = 1
                          THEN seg[q] = ToolCallEvent(b[i].name,
                                            ParseArguments(b[i].arguments).value)
                          ELSE /\ seg[q].type = "tool_result"
                               /\ seg[q].tool = b[i].name
                 /\ j < Len(S) => Len(seg) = 2 * Len(b)
        /\ LET nCalls == Len(SelectSeq(events, IsToolCall))
               nResults == Len(SelectSeq(events, IsToolResult))
           IN  /\ Len(executed) = nResults
               /\ nCalls \in {nResults, nResults + 1}

\* A second iteration has begun after a batch of two requests.
C6_Witness ==
    /\ Len(Segments) >= 2
    /\ Len(script[1].tool_calls) = 2
    /\ Len(ToolEvents(Segments, 1)) = 4

-----------------------------------------------------------------------------
(* C7 *)

UnknownRequests == {ji \in Requests : RequestAt(ji).name \notin TOOL_REGISTRY}

\* What C7 and its amendment share: the dispatch of an unknown name yields
\* the tool_result with the Unknown tool error (no exception leaves the
\* dispatch), and once the generator has left the batch every request of it
\* has its two events.
UnknownToolRecovered(S, j, i) ==
    LET call == script[j].tool_calls[i]
        te == ToolEvents(S, j)
    IN  /\ Len(te) >= 2 * i
        /\ te[2 * i] = ToolResultEvent(call.name,
                           ErrorArtifact("Unknown tool: " \o call.name))
        /\ PastBatch(S, j) => Len(te) = 2 * Len(script[j].tool_calls)

\* C7 as stated: after the batch of an unknown tool the loop goes on to the
\* next gateway request (the next thinking event).
C7_UnknownToolThenNextRequest ==
    LET S == Segments
    IN  \A ji \in UnknownRequests :
            Dispatched(S, ji[1], ji[2]) =>
                /\ UnknownToolRecovered(S, ji[1], ji[2])
                /\ PastBatch(S, ji[1]) => ji[1] < Len(S)

\* C7 as amended: after the batch of an unknown tool the loop goes on to the
\* next gateway request, or, when the batch is the one of the fifth
\* iteration, to the synthetic final event.
C7_UnknownToolRecovered ==
    LET S == Segments
    IN  \A ji \in UnknownRequests :
            Dispatched(S, ji[1], ji[2]) =>
                /\ UnknownToolRecovered(S, ji[1], ji[2])
                /\ PastBatch(S, ji[1]) =>
                      IF ji[1] < max_iterations
                      THEN ji[1] < Len(S)
                      ELSE /\ ji[1] = Len(S)
                           /\ Last(events) = FinalEvent(BudgetFinal)

\* An unknown tool first in a batch of two, and the loop at its next request.
C7_Witness ==
    /\ <<1, 1>> \in UnknownRequests
    /\ Len(script[1].tool_calls) = 2
    /\ Len(Segments) = 2
    /\ Len(script) = 2

-----------------------------------------------------------------------------
(* C8 *)

\* The requests whose tool execution raises.
RaisingRequests ==
    {ji \in Requests :
        LET call == RequestAt(ji)
            p == ParseArguments(call.arguments)
        IN  /\ call.name \in TOOL_REGISTRY
            /\ p.exc = ""
            /\ CallTool(call.name, p.value).exc # ""}

\* C8: a tool execution that raises gives a tool_result event whose result
\* is an error artifact (the exception does not leave the dispatch), and once
\* the generator has left the batch every request of it, the later ones
\* included, was executed and has its tool_call and tool_result events.
C8_RaisingToolRecovered ==
    LET S == Segments
    IN  \A ji \in RaisingRequests :
            LET j == ji[1]
                i == ji[2]
                te == ToolEvents(S, j)
            IN  Dispatched(S, j, i) =>
                  /\ Len(te) >= 2 * i
                  /\ te[2 * i].type = "tool_result"
                  /\ te[2 * i].result.is_error
                  /\ PastBatch(S, j) =>
                        /\ Len(te) = 2 * Len(script[j].tool_calls)
                        /\ Len(executed) >= Requested(j)

\* The first tool of a batch of two raised and the second has its result.
C8_Witness ==
    /\ <<1, 1>> \in RaisingRequests
    /\ Len(script[1].tool_calls) = 2
    /\ Len(ToolEvents(Segments, 1)) = 4
    /\ Len(executed) = 2

-----------------------------------------------------------------------------
(* C9 *)

\* The requests whose payload json.loads cannot parse.
UnparsableRequests ==
    {ji \in Requests : json_loads(RequestAt(ji).arguments).exc # ""}

\* C9: a request whose payload cannot be parsed (no JSON, or absent) does not
\* abort the run while its batch is handled, its tool_call event carries the
\* empty mapping, and once the generator has left the batch every request of
\* it has its two events.
C9_UnparsablePayloadIsEmptyMapping ==
    LET S == Segments
    IN  \A ji \in UnparsableRequests :
            LET j == ji[1]
                i == ji[2]
                te == ToolEvents(S, j)
            IN  /\ ~ (pc = "raised" /\ j = Len(script))
                /\ Len(te) >= 2 * i - 1 => te[2 * i - 1].arguments = PyDict({})
                /\ PastBatch(S, j) => Len(te) = 2 * Len(script[j].tool_calls)

-----------------------------------------------------------------------------
(* C10 *)

\* The kind and the tool name of an event.
Shape(e) == <<e.type, IF IsToolEvent(e) THEN e.tool ELSE "">>

RECURSIVE BatchShape(_, _)
\* tool_call, tool_result of each request of batch b from the i-th on.
BatchShape(b, i) ==
    IF i > Len(b)
    THEN <<>>
    ELSE << <<"tool_call", b[i].name>>, <<"tool_result", b[i].name>> >>
         \o BatchShape(b, i + 1)

RECURSIVE ScriptShape(_)
\* The events the first n gateway outcomes call for, when they are batches
\* of tool requests and text answers.
ScriptShape(n) ==
    IF n = 0
    THEN <<>>
    ELSE ScriptShape(n - 1) \o << <<"thinking", "">> >> \o
         (IF HasTools(script[n])
          THEN BatchShape(script[n].tool_calls, 1)
          ELSE << <<"final", "">> >>)

\* The gateway returned k < 5 batches of tool requests and then a text.
ScriptedRun ==
    /\ script # <<>>
    /\ Len(script) <= max_iterations
    /\ IsText(Last(script))
    /\ \A j \in 1..(Len(script) - 1) : HasTools(script[j])

\* C10: when the gateway returned k < 5 batches and then a final text, the
\* events are exactly, per batch, thinking and tool_call, tool_result of each
\* request in order, then thinking and final.
C10_ScriptedRunEmitsExactly ==
    ScriptedRun =>
        LET expected == ScriptShape(Len(script))
        IN  /\ Len(events) = Len(expected)
            /\ \A p \in 1..Len(events) : Shape(events[p]) = expected[p]

\* A returned run of two batches, one of two requests, and a final text.
C10_Witness ==
    /\ ScriptedRun
    /\ pc = "returned"
    /\ Len(script) = 3
    /\ Len(script[2].tool_calls) = 2

-----------------------------------------------------------------------------
(* The Conversation, read against the requests made to the gateway *)

IsAssistantWithCalls(m) == m.role = "assistant" /\ m.tool_calls # <<>>

IsToolMessage(m) == m.role = "tool"

\* In the conversation conv the assistant message at position p is followed
\* by one tool message per call, in order, with the calls' identifiers, and
\* by no further tool message.
Answered(conv, p) ==
    LET calls == conv[p].tool_calls
        n == Len(calls)
    IN  /\ p + n <= Len(conv)
        /\ \A i \in 1..n :
              /\ IsToolMessage(conv[p + i])
              /\ conv[p + i].tool_call_id = calls[i].id
        /\ p + n < Len(conv) => ~IsToolMessage(conv[p + n + 1])

\* C11: in the Conversation passed to every gateway call, each assistant
\* message that issued tool calls is immediately followed by exactly one
\* tool-result message per call of its batch, in request order, each with
\* the identifier of the call it answers, and by no other message before
\* the next assistant message.
C11_CallsAnsweredInConversation ==
    \A k \in 1..Len(requests) :
        LET conv == requests[k].messages
        IN  \A p \in 1..Len(conv) :
                IsAssistantWithCalls(conv[p]) => Answered(conv, p)

\* A gateway call was made with a Conversation that holds a batch of two
\* calls and, after its answers, a second batch.
C11_Witness ==
    \E k \in 1..Len(requests) :
        LET conv == requests[k].messages
        IN  \E p, q \in 1..Len(conv) :
                /\ p < q
                /\ IsAssistantWithCalls(conv[p])
                /\ Len(conv[p].tool_calls) = 2
                /\ IsAssistantWithCalls(conv[q])

\* C12: the tool schema set passed to the gateway on every request declares
\* exactly the six tools of the system: its names are the names of the Tool
\* Registry.
C12_SchemaDeclaresRegistry ==
    \A k \in 1..Len(requests) :
        /\ requests[k].tools = TOOL_REGISTRY
        /\ Cardinality(requests[k].tools) = 6

IsMapping(v) == v.kind = "dict"

\* A result of execute_tool is a mapping: an artifact with its type or an
\* error artifact with its message.
IsResultMapping(r) ==
    IF r.is_error THEN r.error # "" /\ r.type = ""
    ELSE r.type # "" /\ r.error = ""

\* C13: every tool_call event carries a mapping as arguments and every
\* tool_result event carries a mapping as result, whatever raw payload the
\* gateway returned, a JSON text that is no object included.
C13_ArgumentsAndResultAreMappings ==
    \A k \in 1..Len(events) :
        /\ IsToolCall(events[k]) => IsMapping(events[k].arguments)
        /\ IsToolResult(events[k]) => IsResultMapping(events[k].result)

\* Number of final events yielded so far.
Finals == Cardinality({k \in 1..Len(events) : events[k].type = "final"})

\* C14: a gateway response without tool requests is the last one of the
\* run, and the run yields exactly one final event, the last event, whose
\* content is the response's text, or "Analysis complete." when the text is
\* empty or absent; after it the generator only returns.
C14_TextResponseEndsWithOneFinal ==
    \A j \in 1..Len(script) :
        IsText(script[j]) =>
            /\ j = Len(script)
            /\ Len(requests) = j
            /\ Finals = 1
            /\ Last(events) =
                   [type |-> "final",
                    content |-> IF script[j].content \in {NoneVal, ""}
                                THEN "Analysis complete."
                                ELSE script[j].content]
            /\ pc \in {"at_final", "returned", "closed"}

\* A run returned after a response, not its first, whose text was empty.
C14_Witness ==
    /\ pc = "returned"
    /\ IsText(Last(script))
    /\ Last(script).content = ""
    /\ Len(script) > 1

-----------------------------------------------------------------------------
(* Detaching and pulling *)

\* C15: once the consumer has detached at a yield point, the generator makes
\* no gateway call, executes no tool and yields no event, an error event
\* included, the adapter yields nothing and saves no meeting, and the
\* generator stays closed.
C15_DetachedRunDoesNothingMore ==
    [][ /\ pc' = "closed" =>
              /\ events' = events
              /\ script' = script
              /\ requests' = requests
              /\ executed' = executed
              /\ messages' = messages
              /\ stream' = stream
              /\ meetings' = meetings
        /\ pc = "closed" => pc' = "closed" ]_vars

\* The adapter's client went away after a tool_call event, the tool not
\* yet executed.
C15_Witness ==
    /\ consumer = "adapter"
    /\ pc = "closed"
    /\ apc = "closed"
    /\ IsToolCall(Last(events))
    /\ Len(executed) = 1
    /\ meetings = <<>>

\* Number of events of type t among the first n events.
CountEvents(t, n) == Cardinality({k \in 1..n : events[k].type = t})

\* C16: the generator does no unobserved work.  A step makes at most one
\* gateway call, executes at most one tool and yields at most one event.
\* The k-th gateway call is made in a step that resumes the generator from
\* the yield of the k-th thinking event, the last event the consumer got;
\* the k-th tool is executed in a step that resumes it from the yield of the
\* k-th tool_call event, which names that tool; and the step that yields a
\* thinking or a tool_call event does not do the work that follows it.
C16_NoUnobservedWork ==
    [][ /\ Len(events') <= Len(events) + 1
        /\ requests' # requests =>
              /\ Len(requests') = Len(requests) + 1
              /\ pc = "at_thinking"
              /\ Last(events) = ThinkingEvent
              /\ CountEvents("thinking", Len(events)) = Len(requests')
              /\ Last(requests').messages = messages
        /\ executed' # executed =>
              /\ Len(executed') = Len(executed) + 1
              /\ pc = "at_tool_call"
              /\ IsToolCall(Last(events))
              /\ Last(events).tool = Last(executed').tool
              /\ CountEvents("tool_call", Len(events)) = Len(executed')
        /\ (Len(events') > Len(events) /\ Last(events').type = "thinking") =>
              requests' = requests
        /\ (Len(events') > Len(events) /\ IsToolCall(Last(events'))) =>
              executed' = executed ]_vars

\* Three gateway calls were made and three tools executed.
C16_Witness ==
    /\ Len(requests) = 3
    /\ Len(executed) = 3
    /\ CountEvents("thinking", Len(events)) = 3

-----------------------------------------------------------------------------
(* The Conversation over the steps of a run *)

IsPrefix(a, b) == Len(a) <= Len(b) /\ SubSeq(b, 1, Len(a)) = a

\* C18: in every state of a run whose body has started, the first message
\* of the Conversation is the system instruction and the second is the
\* transcript in the prompt template; every step leaves the Conversation a
\* prefix of what it is after the step.
C18_ConversationHeadFixedAppendOnly ==
    [][ /\ pc' # "start" =>
              /\ Len(messages') >= 2
              /\ messages'[1] = [role |-> "system", content |-> SYSTEM_PROMPT]
              /\ messages'[2] = [role |-> "user",
                                 content |-> UserPrompt(transcript')]
        /\ IsPrefix(messages, messages') ]_vars

\* The Conversation has grown by two batches and their answers.
C18_Witness ==
    /\ Len(messages) >= 7
    /\ pc = "returned"
    /\ transcript # ""

\* C20, as claimed: the assistant's tool-request message is appended after
\* the last tool-result message of its batch and before the next gateway
\* request, so that every request after a batch is made with a
\* Conversation that ends with that batch's assistant message.
C20_AssistantMessageAfterBatch ==
    \A k \in 2..Len(requests) :
        LET m == Last(requests[k].messages)
        IN  /\ IsAssistantWithCalls(m)
            /\ m.tool_calls = script[k - 1].tool_calls

\* C20, amended: the assistant's tool-request message is appended before
\* the first call of its batch is processed: it is the last message when
\* the first tool_call event of the batch is yielded, and every request
\* after a batch is made with a Conversation that ends with that message
\* and, after it, the batch's tool-result messages.
C20_AssistantMessageBeforeBatch ==
    /\ (pc = "at_tool_call" /\ idx = 1) =>
            Last(messages) = model_dump(MessageOf(Last(script)))
    /\ \A k \in 2..Len(requests) :
            LET conv == requests[k].messages
                n == Len(script[k - 1].tool_calls)
            IN  /\ Len(conv) > n
                /\ conv[Len(conv) - n] = model_dump(MessageOf(script[k - 1]))
                /\ \A i \in 1..n : IsToolMessage(conv[Len(conv) - n + i])

\* A gateway request was made after a batch of two calls.
C20_Witness ==
    /\ Len(requests) >= 2
    /\ Len(script[Len(requests) - 1].tool_calls) = 2

-----------------------------------------------------------------------------
(* The tool functions *)

\* C19: create_action_items returns one normalized item per entry of
\* items, in the order of items; a field the entry lacks has its default
\* ("" for task, "Unassigned" for assignee, "TBD" for deadline, "medium"
\* for priority), a field the entry gives has the given value; total_items
\* is the number of entries.
C19_ActionItemsNormalized ==
    (tool_input.tool = "create_action_items" /\ tool_output.exc # "none") =>
        /\ tool_output.exc = ""
        /\ LET given == tool_input.items
               out == tool_output.value
           IN  /\ Len(out.items) = Len(given)
               /\ \A i \in 1..Len(given) :
                     /\ out.items[i].task =
                           IF "task" \in DOMAIN given[i]
                           THEN given[i].task ELSE ""
                     /\ out.items[i].assignee =
                           IF "assignee" \in DOMAIN given[i]
                           THEN given[i].assignee ELSE "Unassigned"
                     /\ out.items[i].deadline =
                           IF "deadline" \in DOMAIN given[i]
                           THEN given[i].deadline ELSE "TBD"
                     /\ out.items[i].priority =
                           IF "priority" \in DOMAIN given[i]
                           THEN given[i].priority ELSE "medium"
               /\ out.metadata.total_items = Len(given)

-----------------------------------------------------------------------------
(* Two concurrent invocations *)

IsAssistant(m) == m.role = "assistant"

\* The Conversation of the invocation with the locals and logs v is made of
\* that invocation's own history and of nothing else: the system
\* instruction and its own transcript in the template, then only assistant
\* messages, which are in order the tool-request messages its own gateway
\* calls returned, and tool messages, which carry in order the identifiers
\* of the calls it executed and the results of its own tool_result events.
OwnConversation(v) ==
    v.pc # "start" =>
        LET conv == v.messages
            assistants == SelectSeq(conv, IsAssistant)
            tools == SelectSeq(conv, IsToolMessage)
            batches == SelectSeq(v.script, HasTools)
            results == SelectSeq(v.events, IsToolResult)
        IN  /\ Len(conv) >= 2
            /\ conv[1] = [role |-> "system", content |-> SYSTEM_PROMPT]
            /\ conv[2] = [role |-> "user", content |-> UserPrompt(v.transcript)]
            /\ Len(conv) = 2 + Len(assistants) + Len(tools)
            /\ Len(assistants) <= Len(batches)
            /\ \A j \in 1..Len(assistants) :
                  /\ assistants[j].tool_calls = batches[j].tool_calls
                  /\ assistants[j].content = batches[j].content
            /\ Len(tools) <= Len(results)
            /\ \A n \in 1..Len(tools) :
                  /\ tools[n].tool_call_id = v.executed[n].id
                  /\ tools[n].content = json_dumps(results[n].result)

\* C17: with two invocations running concurrently, after every step of
\* either one and after every switch between them, the Conversation of each
\* holds only its own transcript, its own assistant messages and its own
\* tool results; a step of one invocation leaves the other's locals as they
\* were; and the Tool Registry is after the step what it was before it.
C17_InvocationsShareNothing ==
    [][ /\ OwnConversation(Locals)'
        /\ OwnConversation(parked)'
        /\ active' = active => parked' = parked
        /\ registry' = registry
        /\ registry' = TOOL_REGISTRY ]_vars

\* Both invocations have appended the answers to a batch of their own, one
\* of them an error artifact, and the other invocation's batch differs.
C17_Witness ==
    /\ parked.pc # "none"
    /\ Len(messages) >= 5
    /\ Len(parked.messages) >= 4
    /\ messages[3] # parked.messages[3]
    /\ \E n \in 1..Len(events) :
          IsToolResult(events[n]) /\ events[n].result.is_error

-----------------------------------------------------------------------------
(* Tool functions called on their own *)

\* C21: every tool function, called with its optional fields omitted or
\* with its required fields empty (an empty string, an empty list, null for
\* a field of an item), is dispatched to an artifact tagged with the tool's
\* type, never to an error artifact.
C21_ToolsDegradeNeverFail ==
    tool_output.exc # "none" =>
        LET r == Dispatch(tool_output)
        IN  /\ "error" \notin DOMAIN r
            /\ r.type = Signature(tool_input.tool).type

-----------------------------------------------------------------------------
(* The adapter's persistence *)

\* The result fields of the tool_result events of S, in the order of S.
ResultsOf(S) ==
    LET R == SelectSeq(S, IsToolResult)
    IN  [n \in 1..Len(R) |-> R[n].result]

\* The first n words of s, joined by single spaces.
FirstWords(s, n) ==
    LET words == split(s)
    IN  join(SubSeq(words, 1, min(n, Len(words))))

\* The generator has been pulled to its end by the adapter: it returned, or
\* an exception left it.
PulledToEnd == consumer = "adapter" /\ pc \in {"returned", "raised"}

\* C22: a run the adapter pulls to its end is persisted exactly once, after
\* the last event of the loop was relayed and before meeting_saved; the row
\* holds the results of all tool_result events in emission order, the
\* content of the final event as summary and the first 8 words of that
\* summary as title; a run that ended with an error event is persisted with
\* an empty summary and the title "Untitled Meeting".
C22_PulledRunPersistedOnce ==
    /\ Len(meetings) <= 1
    /\ PulledToEnd =>
          /\ Len(meetings) = 1
          /\ stream = [n \in 1..Len(events) |-> SSE(events[n])]
                          \o <<MeetingSaved(meetings[1].id)>>
          /\ meetings[1].results_json = json_dumps(ResultsOf(events))
          /\ events # <<>> /\ Last(events).type \in {"final", "error"}
          /\ Last(events).type = "final" =>
                /\ meetings[1].summary = Last(events).content
                /\ meetings[1].title = FirstWords(Last(events).content, 8)
          /\ Last(events).type = "error" =>
                /\ meetings[1].summary = ""
                /\ meetings[1].title = "Untitled Meeting"

-----------------------------------------------------------------------------
(* The batch of the last iteration *)

-----------------------------------------------------------------------------
(* The result in the event and in the Conversation *)

\* C24: the tool messages of the Conversation answer the executed calls in
\* order: the n-th carries the identifier of the n-th executed call and the
\* result of the n-th tool_result event; it is appended after that event
\* was yielded (there are never more tool messages than tool_result
\* events) and before the next call's tool_call event, the next thinking
\* event or the final event is yielded (only the result of an event that
\* is the last event so far may still lack its message).
C24_ToolMessageCarriesEventResult ==
    LET tools == SelectSeq(messages, IsToolMessage)
        results == SelectSeq(events, IsToolResult)
        calls == SelectSeq(events, IsToolCall)
    IN  /\ Len(tools) <= Len(results)
        /\ Len(results) <= Len(executed)
        /\ Len(tools) >= Len(results) - 1
        /\ Len(tools) >= Len(calls) - 1
        /\ (events # <<>> /\ ~IsToolResult(Last(events))) =>
                Len(tools) = Len(results)
        /\ \A n \in 1..Len(tools) :
              /\ tools[n].tool_call_id = executed[n].id
              /\ results[n].tool = executed[n].tool
              /\ tools[n].content = json_dumps(results[n].result)

\* The Conversation holds the tool message of an error artifact and the
\* tool_call event of the call after it was yielded.
C24_Witness ==
    LET tools == SelectSeq(messages, IsToolMessage)
        calls == SelectSeq(events, IsToolCall)
    IN  \E n \in 1..Len(tools) :
            /\ tools[n].content.json.is_error
            /\ Len(calls) > n

-----------------------------------------------------------------------------
(* The calendar invite's times *)

\* C25: create_calendar_invite never ends in an error artifact, whatever
\* the strings given as start_time and end_time; when either of them is no
\* parsable date-time, both are replaced: the start is 09:00 and the end
\* 10:00 of the day the clock reads, so the start is not after the end;
\* when both parse, both are kept.
C25_UnparsableTimesFallBackTogether ==
    (tool_input.tool = "create_calendar_invite" /\ tool_output.exc # "none") =>
        LET r == Dispatch(tool_output)
            s == fromisoformat(tool_input.start_time)
            e == fromisoformat(tool_input.end_time)
        IN  /\ "error" \notin DOMAIN r
            /\ r.type = "calendar_invite"
            /\ r.event_details.start_time = isoformat(r.ics_content.dtstart)
            /\ r.event_details.end_time = isoformat(r.ics_content.dtend)
            /\ IF s.exc = "" /\ e.exc = ""
               THEN /\ r.ics_content.dtstart = s.value
                    /\ r.ics_content.dtend = e.value
               ELSE /\ r.ics_content.dtstart =
                          DateTime(tool_input.clock[1], 9, 0)
                    /\ r.ics_content.dtend =
                          DateTime(tool_input.clock[2], 10, 0)
                    /\ r.event_details.start_time =
                          tool_input.clock[1] \o "T09:00:00"
                    /\ r.event_details.end_time =
                          tool_input.clock[2] \o "T10:00:00"
                    /\ ~After(r.ics_content.dtstart, r.ics_content.dtend)

\* The call gave a parsable start_time of the afternoon and "TBD" as
\* end_time, and returned an invite from 09:00.
C25_Witness ==
    /\ tool_input.tool = "create_calendar_invite"
    /\ tool_input.start_time = "2026-11-05T14:00:00"
    /\ tool_input.end_time = "TBD"
    /\ tool_output.exc = ""
    /\ tool_output.value.ics_content.dtstart.hour = 9

-----------------------------------------------------------------------------
(* The productivity score *)

\* C26: the productivity_score of the sentiment artifact lies in 1..10: a
\* given integer below 1 becomes 1, one above 10 becomes 10, one within
\* 1..10 is kept, and an omitted score becomes 5.
C26_ScoreClamped ==
    (tool_input.tool = "analyze_sentiment" /\ tool_output.exc # "none") =>
        /\ tool_output.exc = ""
        /\ LET p == tool_input.productivity_score
               score == tool_output.value.details.productivity_score
           IN  /\ score \in 1..10
               /\ IF p.none THEN score = 5
                  ELSE IF p.value < 1 THEN score = 1
                  ELSE IF p.value > 10 THEN score = 10
                  ELSE score = p.value

====
